---- MODULE Spec2Model ----
(***************************************************************************)
(* SimulAiz voice + avatar agent.                                          *)
(*                                                                         *)
(* Part 1 models the streaming transcriber (stt_whisper.py) together with  *)
(* the inbound-audio consumer loop of agent.py that drives it.             *)
(* Part 2 models one portrait renderer (avatar_liveportrait.py,            *)
(* avatar_wav2lip.py) and the reactive renderer (avatar_reactive.py) with  *)
(* their queues and pacing timers.                                         *)
(* Part 3 models the session controller's renderer hot-swap (agent.py).    *)
(***************************************************************************)
EXTENDS Integers, Sequences, FiniteSets, TLC

(***************************************************************************)
(* Bounds of the model.                                                    *)
(***************************************************************************)
\* longest prefix of an utterance the decoder returns
MaxTextLen == 16
\* number of push_pcm calls of one run
MaxPush == 3
\* last reading of time.time(), in milliseconds since Init's reading
MaxClock == 1000
\* most 20 ms sub-frames in one pushed chunk
MaxFrames == 2
\* most frames _render_window returns for one window
MaxBurst == 2
\* data packets of one session run
MaxMsgs == 2
\* samples the synthesis stream yields for one text
MaxSamples == 1
\* confirmed deltas taken in one session run
MaxHeard == 1
\* number of push_pcm calls of one voice-activity run
MaxVadPush == 2

(***************************************************************************)
(* Part 1 - WhisperStreamingSTT                                            *)
(***************************************************************************)
\* constructor defaults, stt_whisper.py:24-27
SampleRate == 16000
FrameMs == 20
WindowS == 12
StepMs == 400
\* the margin of the local-agreement test, stt_whisper.py:80
MinMargin == 6

\* self.frame, self.window, self.step
Frame == (SampleRate * FrameMs) \div 1000
Window == WindowS * SampleRate
Step == (StepMs * SampleRate) \div 1000
\* self.step / self.sr, the rate-limit interval, here in milliseconds
StepInterval == (Step * 1000) \div SampleRate

VARIABLES
    buf,               \* self.buf: runs <<lo, hi>> of positions of the pushed stream
    pushed,            \* samples pushed so far (position of the next sample)
    npush,             \* push_pcm calls so far
    last_confirmed_t,  \* self.last_confirmed_t (ms)
    last_text,         \* self.last_text
    final_q,           \* self._final_q
    partial,           \* self._partial
    clock,             \* time.time() (ms)
    consumer,          \* consume_remote_audio: "recv", "poll", "speak", "failed"
    tts_ok,            \* tts is not None
    last_op,           \* how the latest push_pcm call ended
    last_chunk,        \* the chunk of the latest push_pcm call
    text,              \* the text of the latest decode
    decode_t           \* when the latest decode started (-1: none yet)

sttVars == <<buf, pushed, npush, last_confirmed_t, last_text, final_q, partial,
             clock, consumer, tts_ok, last_op, last_chunk, text, decode_t>>

\* ---- one started renderer (Part 2) ----
VARIABLES
    r_kind,     \* the strategy: "liveportrait", "wav2lip" or "reactive"
    r_stop,     \* self._stop
    audio_q,    \* items in self._audio_q / self._pcm_q
    frame_q,    \* items in self._frame_q
    player,     \* _player (or the reactive loop): "loop", "wait", "sleep", "done"
    p_timer,    \* pacing periods left of the player's wait_for or sleep
    worker,     \* _worker: "loop", "wait", "put" (suspended in put), "done", "none"
    w_timer,    \* pacing periods left of the worker's wait_for
    w_buf,      \* samples in the Wav2Lip worker's buf
    w_last,     \* how the windows of the Wav2Lip worker went: "none", "frames",
                \* "raised" (the latest one raised), "resumed" (rendered after a raise)
    arrived,    \* chunks handed to consume_tts_chunk in this pacing period
    gap         \* pacing periods since the last capture_frame (-1: no frame yet)

rendVars == <<r_kind, r_stop, audio_q, frame_q, player, p_timer, worker, w_timer,
              w_buf, w_last, arrived, gap>>

\* ---- the session controller (Part 3) ----
VARIABLES
    attrs,          \* brain.s, the keys the controller reads
    env_mode,       \* os.getenv("AVATAR_MODE", "reactive")
    env_image,      \* AVATAR_IMAGE or DEFAULT_AVATAR_IMAGE_PATH is set
    unpub_ok,       \* the transport offers get_track_publications and unpublishes
    renderers,      \* every renderer constructed so far: kind, stop, task, track
    avatar,         \* index of `avatar` in renderers (0: None)
    avatar_task,    \* index of the renderer `avatar_task` runs (0: None)
    apply_pending,  \* apply_avatar_settings tasks created and not yet run
    nmsg,           \* data packets received so far
    swap_from,      \* the portrait renderer active when avatar_mode was set to
                    \* "reactive" (0: no such message yet)
    swap_wait,      \* apply_avatar_settings runs until that message's task has run
    reactive_ok,    \* `from .avatar_reactive import ReactiveAvatar` succeeded
    frame_by,       \* the renderer that captured the latest video frame (0: none yet)
    late_frame,     \* a renderer captured a frame after a successor was started
    burst           \* two apply_avatar_settings tasks have been pending at once

sessVars == <<attrs, env_mode, env_image, unpub_ok, renderers, avatar, avatar_task,
              apply_pending, nmsg, swap_from, swap_wait, reactive_ok, frame_by,
              late_frame, burst>>

\* ---- speech output (Part 4) ----
VARIABLES
    sp              \* the speak_text coroutines: pc, the chunks speak returned,
                    \* chunks done, and what audio_src.capture_frame received from
                    \* each, in order

VARIABLE
    reply           \* the mood brain.answer last read and the prefix it chose
                    \* ("none": not called yet, "raised": it raised)

VARIABLE
    track           \* the speak_text coroutine of each chunk audio_src has
                    \* received, in the order of the capture_frame calls

speakVars == <<sp, reply, track>>

\* ---- the session's life (Part 5) ----
VARIABLES
    cfg,            \* AgentConfig: enabled, and whether each string is non-empty
    thread,         \* threads start_background_agent has started
    returned,       \* what start_background_agent returned
    phase,          \* where _run_agent_async is
    room,           \* the transport: "none", "connected", "disconnected", "failed"
    audio_track,    \* the outbound audio track is published
    handlers,       \* events with a registered handler
    stt_ok,         \* stt is not None
    announced,      \* agent-online messages sent
    heard,          \* confirmed deltas consume_remote_audio has taken
    failed_at,      \* the step whose failure ended the session ("none": no failure)
    exit_cause,     \* why the main loop was left ("none": it was not)
    exit_avatar,    \* `avatar` when the main loop was left
    outcome         \* how _run_agent_async ended

lifeVars == <<cfg, thread, returned, phase, room, audio_track, handlers, stt_ok,
              announced, heard, failed_at, exit_cause, exit_avatar, outcome>>

vars == <<sttVars, rendVars, sessVars, speakVars, lifeVars>>

\* ---- texts: sequences of one-character strings ----
Utterance1 == <<"g","o","o","d","b","y","e"," ","m","y"," ","f","r","i","e","n","d","s"," ","o","k">>
Utterance2 == <<" ","g","o","o","d"," ","d","a","y"," ","t","o"," ","y","o","u"," ","a","l","l"," ","o","k">>

Min(a, b) == IF a < b THEN a ELSE b
Max(a, b) == IF a > b THEN a ELSE b

Prefix(s, n) == SubSeq(s, 1, Min(n, Len(s)))

\* what model.transcribe's segments join to, before .strip()
RawTexts == { Prefix(u, n) : u \in {Utterance1, Utterance2}, n \in 0..MaxTextLen }

IsSpace(c) == c = " "

RECURSIVE LStrip(_)
LStrip(s) == IF s # <<>> /\ IsSpace(Head(s)) THEN LStrip(Tail(s)) ELSE s

RECURSIVE RStrip(_)
RStrip(s) ==
    IF s # <<>> /\ IsSpace(s[Len(s)]) THEN RStrip(SubSeq(s, 1, Len(s) - 1)) ELSE s

\* str.strip()
Strip(s) == RStrip(LStrip(s))

\* str.startswith
StartsWith(t, p) == Len(p) <= Len(t) /\ SubSeq(t, 1, Len(p)) = p

\* text[len(self.last_text):]
SuffixBeyond(t, confirmed) == SubSeq(t, Len(confirmed) + 1, Len(t))

\* variant: the test forgets startswith
ConfirmableAnyText(t, confirmed) ==
    /\ t # <<>>
    /\ Len(t) > Len(confirmed) + MinMargin

\* variant: the test accepts an extension of exactly the margin
ConfirmableAtMargin(t, confirmed) ==
    /\ t # <<>>
    /\ StartsWith(t, confirmed)
    /\ Len(t) >= Len(confirmed) + MinMargin

\* the condition of stt_whisper.py:80
Confirmable(t, confirmed) ==
    /\ t # <<>>
    /\ StartsWith(t, confirmed)
    /\ Len(t) > Len(confirmed) + MinMargin

\* new_part, stt_whisper.py:81
NewPart(t, confirmed) == Strip(SuffixBeyond(t, confirmed))

\* ---- chunks: n complete sub-frames, rem extra samples, the VAD's verdicts ----
Verdicts == {"speech", "silence", "error"}

ChunkLen(c) == c.n * Frame + c.rem

\* range(0, len(pcm) - self.frame, self.frame), as 1-based sub-frame numbers
ScoredFrames(c) == { k \in 1..c.n : (k - 1) * Frame < ChunkLen(c) - Frame }

\* variant: a VAD exception counts as speech
SpeechyOnError(c) == \E k \in ScoredFrames(c) : c.vad[k] \in {"speech", "error"}

\* the loop of stt_whisper.py:53-60; a VAD exception counts as no speech
Speechy(c) == \E k \in ScoredFrames(c) : c.vad[k] = "speech"

\* no chunk pushed yet
NoChunk == [n |-> 0, rem |-> 0, vad |-> <<>>]

\* ---- the buffer ----
RunsLen(runs) ==
    LET RECURSIVE Sum(_)
        Sum(r) == IF r = <<>> THEN 0 ELSE (Head(r)[2] - Head(r)[1]) + Sum(Tail(r))
    IN  Sum(runs)

\* np.concatenate([self.buf, pcm]); adjacent runs of the stream are one run
Concat(runs, lo, hi) ==
    IF lo = hi THEN runs
    ELSE IF runs # <<>> /\ runs[Len(runs)][2] = lo
         THEN SubSeq(runs, 1, Len(runs) - 1) \o << <<runs[Len(runs)][1], hi>> >>
         ELSE Append(runs, <<lo, hi>>)

\* variant: the buffer is never trimmed
Untrimmed(runs, w) == runs

\* x[-self.window:]
RECURSIVE LastSamples(_, _)
LastSamples(runs, w) ==
    IF RunsLen(runs) <= w THEN runs
    ELSE LET h == Head(runs)
             over == RunsLen(runs) - w
         IN  IF h[2] - h[1] <= over
             THEN LastSamples(Tail(runs), w)
             ELSE << <<h[1] + over, h[2]>> >> \o Tail(runs)

\* what model.transcribe does: it raises, or returns segments joining to raw
Outcomes == {[ok |-> FALSE, raw |-> <<>>]} \cup {[ok |-> TRUE, raw |-> r] : r \in RawTexts}

TypeOK ==
    /\ pushed \in Nat /\ npush \in 0..(MaxPush + 1)
    /\ last_confirmed_t \in Nat /\ clock \in Nat
    /\ consumer \in {"recv", "poll", "speak", "failed"}
    /\ tts_ok \in BOOLEAN
    /\ last_op \in {"none", "silent", "limited", "raised", "confirmed", "pending"}
    /\ decode_t \in Int

InitSTT ==
    /\ buf = <<>>
    /\ pushed = 0
    /\ npush = 0
    /\ last_confirmed_t = 0
    /\ last_text = <<>>
    /\ final_q = <<>>
    /\ partial = <<>>
    \* time.time() is far beyond one step interval at construction
    /\ clock = StepInterval
    /\ consumer = "recv"
    /\ tts_ok \in BOOLEAN
    /\ last_op = "none"
    /\ last_chunk = NoChunk
    /\ text = <<>>
    /\ decode_t = -1

\* time passes between two statements
Advances == {StepInterval \div 2, StepInterval}

Tick ==
    /\ \E d \in Advances : clock + d <= MaxClock /\ clock' = clock + d
    /\ UNCHANGED <<buf, pushed, npush, last_confirmed_t, last_text, final_q, partial,
                   consumer, tts_ok, last_op, last_chunk, text, decode_t>>
    /\ UNCHANGED <<rendVars, sessVars, speakVars, lifeVars>>

\* stt_whisper.py:70-87 with the decoded text t
Decode(t) ==
    /\ text' = t
    /\ IF Confirmable(t, last_text)
       THEN IF NewPart(t, last_text) # <<>>
            THEN /\ final_q' = Append(final_q, NewPart(t, last_text))
                 /\ last_text' = t
                 /\ last_confirmed_t' = clock
                 /\ last_op' = "confirmed"
                 /\ UNCHANGED partial
            ELSE /\ last_op' = "pending"
                 /\ UNCHANGED <<final_q, last_text, last_confirmed_t, partial>>
       ELSE /\ partial' = t
            /\ last_op' = "pending"
            /\ UNCHANGED <<final_q, last_text, last_confirmed_t>>

\* the rate-limit test of stt_whisper.py:66
RateLimited == clock - last_confirmed_t < StepInterval

\* one iteration of consume_remote_audio up to the return of push_pcm
PushPcm(c, out) ==
    /\ consumer = "recv"
    /\ npush < MaxPush
    /\ npush' = npush + 1
    /\ last_chunk' = c
    /\ pushed' = pushed + ChunkLen(c)
    /\ buf' = LastSamples(Concat(buf, pushed, pushed + ChunkLen(c)), Window)
    /\ UNCHANGED <<clock, tts_ok>>
    /\ UNCHANGED <<rendVars, sessVars, speakVars, lifeVars>>
    /\ IF ~Speechy(c)
       THEN /\ last_op' = "silent"
            /\ consumer' = "poll"
            /\ UNCHANGED <<last_confirmed_t, last_text, final_q, partial, text, decode_t>>
       ELSE IF RateLimited
       THEN /\ last_op' = "limited"
            /\ consumer' = "poll"
            /\ UNCHANGED <<last_confirmed_t, last_text, final_q, partial, text, decode_t>>
       ELSE /\ decode_t' = clock
            /\ IF ~out.ok
               THEN \* transcribe raises: nothing catches it in push_pcm or in the loop
                    /\ last_op' = "raised"
                    /\ consumer' = "failed"
                    /\ UNCHANGED <<last_confirmed_t, last_text, final_q, partial, text>>
               ELSE /\ Decode(Strip(out.raw))
                    /\ consumer' = "poll"

\* get_final and the test of agent.py:307-309
GetFinal ==
    /\ consumer = "poll"
    /\ IF final_q = <<>>
       THEN /\ consumer' = "recv"
            /\ UNCHANGED final_q
       ELSE /\ final_q' = Tail(final_q)
            /\ consumer' = IF tts_ok THEN "speak" ELSE "recv"
    /\ UNCHANGED <<buf, pushed, npush, last_confirmed_t, last_text, partial, clock,
                   tts_ok, last_op, last_chunk, text, decode_t>>
    /\ UNCHANGED <<rendVars, sessVars, speakVars, lifeVars>>

\* speak_text returns to the loop
SpeakDone ==
    /\ consumer = "speak"
    /\ consumer' = "recv"
    /\ UNCHANGED <<buf, pushed, npush, last_confirmed_t, last_text, final_q, partial,
                   clock, tts_ok, last_op, last_chunk, text, decode_t>>
    /\ UNCHANGED <<rendVars, sessVars, speakVars, lifeVars>>

\* chunks of the transcription runs: one sub-frame and one more sample
SttChunks == { [n |-> 1, rem |-> 1, vad |-> <<v>>] : v \in Verdicts }

Push == \E c \in SttChunks, out \in Outcomes : PushPcm(c, out)

\* chunks of every shape up to MaxFrames sub-frames, with and without a remainder,
\* in which at most one sub-frame is not silence
VadChunks ==
    UNION { { [n |-> k, rem |-> r, vad |-> v] :
              v \in { w \in [1..k -> Verdicts] :
                        Cardinality({ i \in 1..k : w[i] # "silence" }) <= 1 } } :
            k \in 0..MaxFrames, r \in {0, 1} }

\* decode results of the voice-activity runs: a failure and three texts
VadOutcomes ==
    { o \in Outcomes : ~o.ok \/ o.raw \in { Prefix(Utterance1, k * (MinMargin + 1)) : k \in 0..2 } }

PushVad == npush < MaxVadPush /\ \E c \in VadChunks, out \in VadOutcomes : PushPcm(c, out)


(***************************************************************************)
(* Part 2 - a started renderer: LivePortraitBridge, Wav2LipBridge,         *)
(* ReactiveAvatar.  Time is counted in pacing periods (1 / max(1, fps)).   *)
(***************************************************************************)
\* asyncio.Queue(maxsize=...)
LPAudioQMax == 64
LPFrameQMax == 256
W2LPcmQMax == 64
W2LFrameQMax == 64
\* fps defaults of the three constructors
LPFps == 30
W2LFps == 25
ReactiveFps == 30
\* XTTSStreamer.out_rate and the sample rate of the Wav2Lip worker
OutRate == 48000
W2LRate == 48000
\* frame = int(self.out_rate * 0.02): samples of one synthesized chunk
ChunkSamples == (OutRate * 2) \div 100
\* window = int(0.5 * sr)
W2LWindow == W2LRate \div 2

RendererKinds == {"liveportrait", "wav2lip", "reactive"}

\* the strategies with consume_tts_chunk, a player and a worker
Portrait(k) == k \in {"liveportrait", "wav2lip"}

\* variant: the audio queue takes one chunk more than its maxsize
AudioQMaxExceeded(k) == (IF k = "liveportrait" THEN LPAudioQMax ELSE W2LPcmQMax) + 1

AudioQMax(k) == IF k = "liveportrait" THEN LPAudioQMax ELSE W2LPcmQMax

FrameQMax(k) == IF k = "liveportrait" THEN LPFrameQMax ELSE W2LFrameQMax

Fps(k) ==
    CASE k = "liveportrait" -> LPFps
      [] k = "wav2lip" -> W2LFps
      [] OTHER -> ReactiveFps

\* asyncio.sleep(frame_period): one pacing period
PeriodTicks == 1

\* wait_for(..., timeout=0.5): half a second in pacing periods, rounded up
TimeoutTicks(k) == (Fps(k) + 1) \div 2

\* 20 ms chunks speak_text can hand over within one pacing period, rounded up
ChunksPerTick(k) == ((OutRate \div ChunkSamples) + Fps(k) - 1) \div Fps(k)

\* what _render_window does: it raises, or returns a list of frames
RenderOutcomes ==
    {[ok |-> FALSE, frames |-> 0]} \cup {[ok |-> TRUE, frames |-> n] : n \in 0..MaxBurst}

InitRender ==
    /\ r_kind \in RendererKinds
    /\ r_stop = FALSE
    /\ audio_q = 0
    /\ frame_q = 0
    /\ player = "loop"
    /\ p_timer = 0
    /\ worker = IF Portrait(r_kind) THEN "loop" ELSE "none"
    /\ w_timer = 0
    /\ w_buf = 0
    /\ w_last = "none"
    /\ arrived = 0
    /\ gap = -1

\* the renderer of a run that is about the transcriber
RenderIdle ==
    /\ r_kind = "reactive"
    /\ r_stop = FALSE
    /\ audio_q = 0
    /\ frame_q = 0
    /\ player = "loop"
    /\ p_timer = 0
    /\ worker = "none"
    /\ w_timer = 0
    /\ w_buf = 0
    /\ w_last = "none"
    /\ arrived = 0
    /\ gap = -1

\* consume_tts_chunk, called by speak_text for each chunk: put_nowait, QueueFull dropped
ConsumeTtsChunk ==
    /\ tts_ok
    /\ Portrait(r_kind)
    /\ arrived < ChunksPerTick(r_kind)
    /\ arrived' = arrived + 1
    /\ audio_q' = IF audio_q < AudioQMax(r_kind) THEN audio_q + 1 ELSE audio_q
    /\ UNCHANGED <<r_kind, r_stop, frame_q, player, p_timer, worker, w_timer, w_buf, w_last, gap>>
    /\ UNCHANGED <<sttVars, sessVars, speakVars, lifeVars>>

\* self.src.capture_frame(frame); await asyncio.sleep(period)
CaptureAndSleep ==
    /\ gap' = 0
    /\ player' = "sleep"
    /\ p_timer' = PeriodTicks

\* the head of the player's loop: the stop test, then wait_for(self._frame_q.get(), 0.5);
\* the reactive loop draws its frame itself
PlayerLoop ==
    /\ player = "loop"
    /\ IF r_stop
       THEN /\ player' = "done"
            /\ UNCHANGED <<frame_q, p_timer, gap>>
       ELSE IF ~Portrait(r_kind)
       THEN /\ CaptureAndSleep
            /\ UNCHANGED frame_q
       ELSE IF frame_q > 0
       THEN /\ frame_q' = frame_q - 1
            /\ CaptureAndSleep
       ELSE /\ player' = "wait"
            /\ p_timer' = TimeoutTicks(r_kind)
            /\ UNCHANGED <<frame_q, gap>>
    /\ UNCHANGED <<r_kind, r_stop, audio_q, worker, w_timer, w_buf, w_last, arrived>>
    /\ UNCHANGED <<sttVars, sessVars, speakVars, lifeVars>>

\* a frame arrives while the player waits
PlayerGet ==
    /\ player = "wait"
    /\ frame_q > 0
    /\ frame_q' = frame_q - 1
    /\ CaptureAndSleep
    /\ UNCHANGED <<r_kind, r_stop, audio_q, worker, w_timer, w_buf, w_last, arrived>>
    /\ UNCHANGED <<sttVars, sessVars, speakVars, lifeVars>>

\* asyncio.TimeoutError: the base image is published
PlayerTimeout ==
    /\ player = "wait"
    /\ p_timer = 0
    /\ CaptureAndSleep
    /\ UNCHANGED <<r_kind, r_stop, audio_q, frame_q, worker, w_timer, w_buf, w_last, arrived>>
    /\ UNCHANGED <<sttVars, sessVars, speakVars, lifeVars>>

\* the sleep ends
PlayerWake ==
    /\ player = "sleep"
    /\ p_timer = 0
    /\ player' = "loop"
    /\ UNCHANGED <<r_kind, r_stop, audio_q, frame_q, p_timer, worker, w_timer, w_buf, w_last,
                   arrived, gap>>
    /\ UNCHANGED <<sttVars, sessVars, speakVars, lifeVars>>

\* await self._frame_q.put(x): at once when there is room, else the worker is suspended
AwaitPut ==
    IF frame_q < FrameQMax(r_kind)
    THEN frame_q' = frame_q + 1 /\ worker' = "loop"
    ELSE frame_q' = frame_q /\ worker' = "put"

\* variant: the exception of _render_window leaves the worker
OnRenderErrorPropagates == frame_q' = frame_q /\ worker' = "done"

\* `except Exception: await self._frame_q.put(self.portrait.copy())`
OnRenderError == AwaitPut

\* the worker has taken one chunk from the audio queue
WorkerTake(r) ==
    /\ audio_q' = audio_q - 1
    /\ IF r_kind = "liveportrait"
       THEN \* one frame per chunk
            /\ AwaitPut
            /\ UNCHANGED <<w_buf, w_last>>
       ELSE IF w_buf + ChunkSamples < W2LWindow
       THEN \* the window is not full yet
            /\ w_buf' = w_buf + ChunkSamples
            /\ worker' = "loop"
            /\ UNCHANGED <<frame_q, w_last>>
       ELSE /\ w_buf' = w_buf + ChunkSamples - W2LWindow
            /\ w_last' = IF ~r.ok THEN "raised"
                         ELSE IF w_last \in {"raised", "resumed"} THEN "resumed"
                         ELSE "frames"
            /\ IF r.ok
               THEN \* put_nowait for each frame, the rest dropped at QueueFull
                    /\ frame_q' = Min(frame_q + r.frames, FrameQMax(r_kind))
                    /\ worker' = "loop"
               ELSE OnRenderError

\* the head of the worker's loop: the stop test, then wait_for(self._audio_q.get(), 0.5)
WorkerLoop ==
    /\ worker = "loop"
    /\ IF r_stop
       THEN /\ worker' = "done"
            /\ UNCHANGED <<audio_q, frame_q, w_timer, w_buf, w_last>>
       ELSE IF audio_q > 0
       THEN /\ \E r \in RenderOutcomes : WorkerTake(r)
            /\ UNCHANGED w_timer
       ELSE /\ worker' = "wait"
            /\ w_timer' = TimeoutTicks(r_kind)
            /\ UNCHANGED <<audio_q, frame_q, w_buf, w_last>>
    /\ UNCHANGED <<r_kind, r_stop, player, p_timer, arrived, gap>>
    /\ UNCHANGED <<sttVars, sessVars, speakVars, lifeVars>>

\* a chunk arrives while the worker waits
WorkerGet ==
    /\ worker = "wait"
    /\ audio_q > 0
    /\ \E r \in RenderOutcomes : WorkerTake(r)
    /\ UNCHANGED <<r_kind, r_stop, player, p_timer, w_timer, arrived, gap>>
    /\ UNCHANGED <<sttVars, sessVars, speakVars, lifeVars>>

\* asyncio.TimeoutError: the idle frame is put
WorkerTimeout ==
    /\ worker = "wait"
    /\ w_timer = 0
    /\ AwaitPut
    /\ UNCHANGED <<r_kind, r_stop, audio_q, player, p_timer, w_timer, w_buf, w_last, arrived, gap>>
    /\ UNCHANGED <<sttVars, sessVars, speakVars, lifeVars>>

\* room in the frame queue wakes the suspended put
WorkerPut ==
    /\ worker = "put"
    /\ frame_q < FrameQMax(r_kind)
    /\ frame_q' = frame_q + 1
    /\ worker' = "loop"
    /\ UNCHANGED <<r_kind, r_stop, audio_q, player, p_timer, w_timer, w_buf, w_last, arrived, gap>>
    /\ UNCHANGED <<sttVars, sessVars, speakVars, lifeVars>>

\* a task the event loop can run now
PlayerReady ==
    \/ player = "loop"
    \/ player = "wait" /\ (frame_q > 0 \/ p_timer = 0)
    \/ player = "sleep" /\ p_timer = 0

WorkerReady ==
    \/ worker = "loop"
    \/ worker = "wait" /\ (audio_q > 0 \/ w_timer = 0)
    \/ worker = "put" /\ frame_q < FrameQMax(r_kind)

\* stop(): self._stop = True, whatever it was
Stop ==
    /\ r_stop' = TRUE
    /\ UNCHANGED <<r_kind, audio_q, frame_q, player, p_timer, worker, w_timer, w_buf,
                   w_last, arrived, gap>>
    /\ UNCHANGED <<sttVars, sessVars, speakVars, lifeVars>>

\* start() has returned: both loops have exited
Completed == player = "done" /\ worker \in {"done", "none"}

\* one pacing period passes once no task is ready
TickR ==
    /\ ~PlayerReady
    /\ ~WorkerReady
    /\ ~Completed
    /\ p_timer' = IF player \in {"wait", "sleep"} THEN p_timer - 1 ELSE p_timer
    /\ w_timer' = IF worker = "wait" THEN w_timer - 1 ELSE w_timer
    /\ arrived' = 0
    /\ gap' = IF gap < 0 THEN gap ELSE Min(gap + 1, PeriodTicks + 1)
    /\ UNCHANGED <<r_kind, r_stop, audio_q, frame_q, player, worker, w_buf, w_last>>
    /\ UNCHANGED <<sttVars, sessVars, speakVars, lifeVars>>


(***************************************************************************)
(* Part 3 - the session controller: control messages and renderer hot-swap *)
(***************************************************************************)
\* the attribute keys of the model: three the controller reads, one the brain
\* reads, one nothing reads
Keys == {"avatar_mode", "avatar_fps", "avatar_image", "mood", "note"}

Unset == "<unset>"

\* the main coroutine is suspended in an await at which the session's tasks
\* and callbacks run: publish_data, the main loop's sleep, disconnect
LoopRuns == phase \in {"announcing", "active", "disconnecting"}

\* variant: speak_text goes on without a synthesizer
TtsAssumed == TRUE

\* `tts is not None`, agent.py:274
TtsPresent == tts_ok

\* values a control message can carry for a key
ValuesOf(k) ==
    CASE k = "avatar_mode" -> {"reactive", "liveportrait", "wav2lip"}
      [] k = "avatar_fps" -> {"30", "fast"}
      [] k = "avatar_image" -> {"/data/face.png"}
      [] k = "note" -> {"memo"}
      [] OTHER -> {"happy"}

\* int(str(v)) succeeds
IntParses(v) == v \in {"30"}

\* set maps over all the keys
AllMaps == { m \in [Keys -> UNION { ValuesOf(k) : k \in Keys } \cup {Unset}] :
               \A k \in Keys : m[k] \in ValuesOf(k) \cup {Unset} }

\* set maps of the keys that something reads
SetMaps == { m \in AllMaps : m["note"] = Unset }

\* data packets: a caller.sim message with its set map, or anything else
\* (not JSON, not an object, another type)
Messages == {[sim |-> FALSE, set |-> [k \in Keys |-> Unset]]}
                \cup {[sim |-> TRUE, set |-> m] : m \in SetMaps}

\* data packets of every kind with a set map: caller.sim messages, and
\* packets the handler drops (another type, a set member that is no object)
\* with the set map they carry; the mode, the frame rate and a key that
\* nothing reads
Packets ==
    { [sim |-> s, set |-> m] :
        s \in BOOLEAN,
        m \in { a \in AllMaps : /\ a["avatar_image"] = Unset
                                /\ a["mood"] = Unset
                                /\ a["avatar_mode"] # "liveportrait"
                                /\ a["avatar_fps"] # "fast" } }

\* variant: only the mode key counts
AvatarKeyModeOnly(k) == k = "avatar_mode"

\* k.startswith("avatar_")
AvatarKey(k) == k \in {"avatar_mode", "avatar_fps", "avatar_image"}

\* pc: where the frame loop is suspended - "top" in its sleep (the stop flag is
\* read next), "get" in wait_for(self._frame_q.get()) (a frame is captured next)
NewRenderer(k) ==
    [kind |-> k, stop |-> FALSE, task |-> "created", track |-> "none", pc |-> "top"]

\* a task that is neither finished nor cancelled
Live(r) == r.task \in {"created", "publishing", "running"}

\* the renderer of agent.py:129-160: the configured portrait strategy when it
\* constructs, else the reactive one
InitSession ==
    /\ attrs = [k \in Keys |-> Unset]
    /\ env_mode \in RendererKinds
    /\ env_image \in BOOLEAN
    /\ unpub_ok \in BOOLEAN
    /\ \E built \in BOOLEAN :
         renderers = << NewRenderer(IF Portrait(env_mode) /\ env_image /\ built
                                    THEN env_mode ELSE "reactive") >>
    /\ avatar = 1
    /\ avatar_task = 1
    /\ apply_pending = 0
    /\ nmsg = 0
    /\ swap_from = 0
    /\ swap_wait = 0
    /\ reactive_ok = TRUE
    /\ frame_by = 0
    /\ late_frame = FALSE
    /\ burst = FALSE

\* the session of a run that is about the transcriber or one renderer
SessionIdle ==
    /\ attrs = [k \in Keys |-> Unset]
    /\ env_mode = "reactive"
    /\ env_image = FALSE
    /\ unpub_ok = TRUE
    /\ renderers = << NewRenderer("reactive") >>
    /\ avatar = 1
    /\ avatar_task = 1
    /\ apply_pending = 0
    /\ nmsg = 0
    /\ swap_from = 0
    /\ swap_wait = 0
    /\ reactive_ok = TRUE
    /\ frame_by = 0
    /\ late_frame = FALSE
    /\ burst = FALSE

\* variant: a key that has a value keeps it
StoreFirstWins(a, set) ==
    [k \in Keys |-> IF a[k] # Unset THEN a[k] ELSE set[k]]

\* brain.s[k] = v for every item of the set map (agent.py:237-238)
Store(a, set) ==
    [k \in Keys |-> IF set[k] # Unset THEN set[k] ELSE a[k]]

\* _on_data: every key of the set map is stored; an avatar_ key schedules
\* apply_avatar_settings
OnData(msg) ==
    /\ LoopRuns
    /\ "data_received" \in handlers
    /\ room = "connected"
    /\ nmsg < MaxMsgs
    /\ nmsg' = nmsg + 1
    /\ IF msg.sim
       THEN /\ attrs' = Store(attrs, msg.set)
            /\ apply_pending' =
                 IF \E k \in Keys : AvatarKey(k) /\ msg.set[k] # Unset
                 THEN apply_pending + 1 ELSE apply_pending
       ELSE UNCHANGED <<attrs, apply_pending>>
    /\ IF /\ msg.sim
          /\ msg.set["avatar_mode"] = "reactive"
          /\ swap_from = 0
          /\ avatar # 0
          /\ Portrait(renderers[avatar].kind)
          /\ Live(renderers[avatar])
       THEN swap_from' = avatar /\ swap_wait' = apply_pending + 1
       ELSE UNCHANGED <<swap_from, swap_wait>>
    /\ burst' = (burst \/ apply_pending' >= 2)
    /\ UNCHANGED <<env_mode, env_image, unpub_ok, renderers, avatar, avatar_task,
                   reactive_ok, frame_by, late_frame>>
    /\ UNCHANGED <<sttVars, rendVars, speakVars, lifeVars>>

\* mode and img of agent.py:185-186
Mode == IF attrs["avatar_mode"] # Unset THEN attrs["avatar_mode"] ELSE env_mode

HasImage == attrs["avatar_image"] # Unset \/ env_image

\* variant: the previous renderer is left running
StopPreviousSkipped(rs) == rs

\* avatar.stop() and avatar_task.cancel(), agent.py:191-197
StopPrevious(rs) ==
    [i \in 1..Len(rs) |->
        LET a == IF i = avatar THEN [rs[i] EXCEPT !.stop = TRUE] ELSE rs[i]
        IN  IF i = avatar_task /\ Live(a) THEN [a EXCEPT !.task = "cancelled"] ELSE a]

\* the best-effort unpublish of agent.py:199-208
Unpublish(rs) ==
    [i \in 1..Len(rs) |->
        IF unpub_ok /\ rs[i].track = "published"
        THEN [rs[i] EXCEPT !.track = "unpublished"] ELSE rs[i]]

\* one apply_avatar_settings task runs; it awaits nothing, so it is one step.
\* built: whether a portrait constructor succeeds
ApplyAvatarSettings(built) ==
    /\ LoopRuns
    /\ apply_pending > 0
    /\ apply_pending' = apply_pending - 1
    /\ swap_wait' = IF swap_wait > 0 THEN swap_wait - 1 ELSE swap_wait
    /\ IF attrs["avatar_fps"] # Unset /\ ~IntParses(attrs["avatar_fps"])
       THEN \* int(...) raises at line 187: the task ends before it stops anything
            UNCHANGED <<renderers, avatar, avatar_task>>
       ELSE LET rs == Unpublish(StopPrevious(renderers))
            IN  IF Portrait(Mode) /\ HasImage
                THEN IF built
                     THEN /\ renderers' = Append(rs, NewRenderer(Mode))
                          /\ avatar' = Len(rs) + 1
                          /\ avatar_task' = Len(rs) + 1
                     ELSE \* the constructor raised: avatar stays None
                          /\ renderers' = rs
                          /\ avatar' = 0
                          /\ UNCHANGED avatar_task
                ELSE IF reactive_ok
                     THEN /\ renderers' = Append(rs, NewRenderer("reactive"))
                          /\ avatar' = Len(rs) + 1
                          /\ avatar_task' = Len(rs) + 1
                     ELSE /\ renderers' = rs
                          /\ avatar' = 0
                          /\ UNCHANGED avatar_task
    /\ UNCHANGED <<attrs, env_mode, env_image, unpub_ok, nmsg, swap_from,
                   reactive_ok, frame_by, late_frame, burst>>
    /\ UNCHANGED <<sttVars, rendVars, speakVars, lifeVars>>

\* the task of a renderer starts: start() creates the track and awaits publish_track
RendererStart(i) ==
    /\ LoopRuns
    /\ renderers[i].task = "created"
    /\ renderers' = [renderers EXCEPT ![i].task = "publishing"]
    /\ UNCHANGED <<attrs, env_mode, env_image, unpub_ok, avatar, avatar_task,
                   apply_pending, nmsg, swap_from, swap_wait, reactive_ok, frame_by,
                   late_frame, burst>>
    /\ UNCHANGED <<sttVars, rendVars, speakVars, lifeVars>>

\* publish_track returns: the video track is published and the loops begin
RendererPublished(i) ==
    /\ LoopRuns
    /\ renderers[i].task = "publishing"
    /\ renderers' = [renderers EXCEPT ![i].task = "running", ![i].track = "published"]
    /\ UNCHANGED <<attrs, env_mode, env_image, unpub_ok, avatar, avatar_task,
                   apply_pending, nmsg, swap_from, swap_wait, reactive_ok, frame_by,
                   late_frame, burst>>
    /\ UNCHANGED <<sttVars, rendVars, speakVars, lifeVars>>

\* a portrait renderer's _player reads the stop flag and suspends in wait_for
RendererWait(i) ==
    /\ LoopRuns
    /\ renderers[i].task = "running"
    /\ Portrait(renderers[i].kind)
    /\ renderers[i].pc = "top"
    /\ ~renderers[i].stop
    /\ renderers' = [renderers EXCEPT ![i].pc = "get"]
    /\ UNCHANGED <<attrs, env_mode, env_image, unpub_ok, avatar, avatar_task,
                   apply_pending, nmsg, swap_from, swap_wait, reactive_ok, frame_by,
                   late_frame, burst>>
    /\ UNCHANGED <<sttVars, rendVars, speakVars, lifeVars>>

\* a renderer captures a frame and sleeps: a portrait _player after its
\* wait_for, the reactive loop after reading the stop flag
RendererFrame(i) ==
    /\ LoopRuns
    /\ renderers[i].task = "running"
    /\ IF Portrait(renderers[i].kind) THEN renderers[i].pc = "get" ELSE ~renderers[i].stop
    /\ renderers' = [renderers EXCEPT ![i].pc = "top"]
    /\ frame_by' = i
    /\ late_frame' = (late_frame \/ i < Len(renderers))
    /\ UNCHANGED <<attrs, env_mode, env_image, unpub_ok, avatar, avatar_task,
                   apply_pending, nmsg, swap_from, swap_wait, reactive_ok, burst>>
    /\ UNCHANGED <<sttVars, rendVars, speakVars, lifeVars>>

(***************************************************************************)
(* Part 4 - speech output: XTTSStreamer.speak and speak_text                *)
(***************************************************************************)
\* the two speak_text coroutines of a session: the greeting task of
\* agent.py:290-291 and the reply awaited by consume_remote_audio
Speakers == {"greeting", "reply"}

\* what inference_stream yields: n samples at rate sr
SynthSamples ==
    { [n |-> 480, sr |-> 24000], [n |-> 500, sr |-> 24000], [n |-> 960, sr |-> OutRate] }

Streams == UNION { [1..k -> SynthSamples] : k \in 1..MaxSamples }

\* len(resample_poly(wav, out_rate, sr)): ceil(n * up / down)
ResampledLen(smp) ==
    IF smp.sr = OutRate THEN smp.n ELSE (smp.n * OutRate + smp.sr - 1) \div smp.sr

\* the lengths of pcm[i : i + frame] for i in range(0, len(pcm), frame)
Split(len) ==
    [k \in 1..((len + ChunkSamples - 1) \div ChunkSamples) |->
        Min(ChunkSamples, len - (k - 1) * ChunkSamples)]

RECURSIVE Speak(_)
\* the chunk lengths speak returns for a stream of samples
Speak(stream) ==
    IF stream = <<>> THEN <<>>
    ELSE Split(ResampledLen(Head(stream))) \o Speak(Tail(stream))

InitSpeak ==
    /\ sp = [s \in Speakers |-> [pc |-> "idle", chunks |-> <<>>, i |-> 0, captured |-> <<>>]]
    /\ reply = [mood |-> Unset, pre |-> "none"]
    /\ track = <<>>

\* speak_text(txt) is entered and tts.speak returns its chunks
SpeakText(s, stream) ==
    /\ LoopRuns
    /\ TtsPresent
    /\ sp[s].pc = "idle"
    /\ sp' = [sp EXCEPT ![s] = [pc |-> "loop", chunks |-> Speak(stream), i |-> 0,
                                captured |-> <<>>]]
    /\ UNCHANGED <<reply, track>>
    /\ UNCHANGED <<sttVars, rendVars, sessVars, lifeVars>>

\* variant: a chunk the renderer's full queue refused is not captured
CaptureUnlessDropped(out, k, len, fed) ==
    IF fed = "dropped" THEN out
    ELSE Append(out, [idx |-> k, len |-> len, to |-> avatar, fed |-> fed])

\* audio_src.capture_frame(af), agent.py:284-287
Capture(out, k, len, fed) ==
    Append(out, [idx |-> k, len |-> len, to |-> avatar, fed |-> fed])

\* one pass of the loop of speak_text: the chunk goes to the current renderer
\* (put_nowait accepts it or the full queue refuses it), is captured on the
\* audio track, and the coroutine sleeps for the chunk's duration
SpeakChunk(s, accepted) ==
    /\ LoopRuns
    /\ sp[s].pc = "loop"
    /\ sp[s].i < Len(sp[s].chunks)
    /\ LET k == sp[s].i + 1
           fed == IF avatar = 0 THEN "none"
                  ELSE IF Portrait(renderers[avatar].kind)
                       THEN (IF accepted THEN "queued" ELSE "dropped")
                       ELSE "level"
       IN  sp' = [sp EXCEPT ![s].i = k,
                            ![s].captured = Capture(@, k, sp[s].chunks[k], fed)]
    /\ track' = Append(track, s)
    /\ UNCHANGED reply
    /\ UNCHANGED <<sttVars, rendVars, sessVars, lifeVars>>

\* the loop of speak_text is exhausted and the coroutine returns
SpeakReturn(s) ==
    /\ LoopRuns
    /\ sp[s].pc = "loop"
    /\ sp[s].i = Len(sp[s].chunks)
    /\ sp' = [sp EXCEPT ![s].pc = "done"]
    /\ UNCHANGED <<reply, track>>
    /\ UNCHANGED <<sttVars, rendVars, sessVars, lifeVars>>

(***************************************************************************)
(* Part 5 - the session's life: start_background_agent, _run_agent_async   *)
(***************************************************************************)
Configs == [enabled : BOOLEAN, api_key : BOOLEAN, api_secret : BOOLEAN, lk_url : BOOLEAN]

\* variant: the secret is not required
GateWithoutSecret(c) == c.enabled /\ c.api_key /\ c.lk_url

\* the two tests of start_background_agent
Gate(c) == c.enabled /\ c.api_key /\ c.api_secret /\ c.lk_url

\* variant: the handler lets the failure through
BoundaryReraise(exc) == IF exc = "cancel" THEN "cancelled" ELSE "propagated"

\* `except Exception` around the body of _run_agent_async: a failure is
\* printed, a cancellation (not an Exception) passes
Boundary(exc) == IF exc = "cancel" THEN "cancelled" ELSE "logged"

\* the life of a session in its main loop, for runs about one of its parts
LifeActive ==
    /\ cfg = [enabled |-> TRUE, api_key |-> TRUE, api_secret |-> TRUE, lk_url |-> TRUE]
    /\ thread = 1
    /\ returned = "thread"
    /\ phase = "active"
    /\ room = "connected"
    /\ audio_track = TRUE
    /\ handlers = {"data_received", "track_subscribed"}
    /\ stt_ok = TRUE
    /\ announced = 1
    /\ heard = 0
    /\ failed_at = "none"
    /\ exit_cause = "none"
    /\ exit_avatar = 0
    /\ outcome = "running"

\* the host process before it calls start_background_agent
LifeHost ==
    /\ cfg \in Configs
    /\ thread = 0
    /\ returned = "pending"
    /\ phase = "host"
    /\ room = "none"
    /\ audio_track = FALSE
    /\ handlers = {}
    /\ stt_ok = FALSE
    /\ announced = 0
    /\ heard = 0
    /\ failed_at = "none"
    /\ exit_cause = "none"
    /\ exit_avatar = 0
    /\ outcome = "running"

\* no renderer yet: the session before agent.py:129
SessionNone ==
    /\ attrs = [k \in Keys |-> Unset]
    /\ env_mode \in RendererKinds
    /\ env_image = TRUE
    /\ unpub_ok = TRUE
    /\ renderers = <<>>
    /\ avatar = 0
    /\ avatar_task = 0
    /\ apply_pending = 0
    /\ nmsg = 0
    /\ swap_from = 0
    /\ swap_wait = 0
    /\ reactive_ok = FALSE
    /\ frame_by = 0
    /\ late_frame = FALSE
    /\ burst = FALSE

\* start_background_agent
StartBackgroundAgent ==
    /\ phase = "host"
    /\ IF Gate(cfg)
       THEN /\ thread' = thread + 1
            /\ returned' = "thread"
            /\ phase' = "prepare"
       ELSE /\ returned' = "None"
            /\ phase' = "skipped"
            /\ UNCHANGED thread
    /\ UNCHANGED <<cfg, room, audio_track, handlers, stt_ok, announced, heard,
                   failed_at, exit_cause, exit_avatar, outcome>>
    /\ UNCHANGED <<sttVars, rendVars, sessVars, speakVars>>

\* an exception leaves the body of _run_agent_async at step `at`
Fail(at) ==
    /\ phase' = "finished"
    /\ failed_at' = at
    /\ outcome' = Boundary("exception")

\* the imports and the token, up to the call of room.connect (agent.py:48-123)
Prepare(ok, reactive) ==
    /\ phase = "prepare"
    /\ IF ok
       THEN /\ phase' = "connecting"
            /\ reactive_ok' = reactive
            /\ UNCHANGED <<failed_at, outcome>>
       ELSE /\ Fail("prepare")
            /\ UNCHANGED reactive_ok
    /\ UNCHANGED <<cfg, thread, returned, room, audio_track, handlers, stt_ok,
                   announced, heard, exit_cause, exit_avatar>>
    /\ UNCHANGED <<attrs, env_mode, env_image, unpub_ok, renderers, avatar, avatar_task,
                   apply_pending, nmsg, swap_from, swap_wait, frame_by, late_frame, burst>>
    /\ UNCHANGED <<sttVars, rendVars, speakVars>>

\* room.connect returns or raises; then publish_track is called (agent.py:123-127)
Connected(ok) ==
    /\ phase = "connecting"
    /\ IF ok
       THEN /\ room' = "connected"
            /\ phase' = "publishing"
            /\ UNCHANGED <<failed_at, outcome>>
       ELSE /\ Fail("connect")
            /\ UNCHANGED room
    /\ UNCHANGED <<cfg, thread, returned, audio_track, handlers, stt_ok, announced,
                   heard, exit_cause, exit_avatar>>
    /\ UNCHANGED <<sttVars, rendVars, sessVars, speakVars>>

\* publish_track of the audio track returns or raises (agent.py:127)
AudioPublished(ok) ==
    /\ phase = "publishing"
    /\ IF ok
       THEN /\ audio_track' = TRUE
            /\ phase' = "renderer"
            /\ UNCHANGED <<failed_at, outcome>>
       ELSE /\ Fail("publish")
            /\ UNCHANGED audio_track
    /\ UNCHANGED <<cfg, thread, returned, room, handlers, stt_ok, announced, heard,
                   exit_cause, exit_avatar>>
    /\ UNCHANGED <<sttVars, rendVars, sessVars, speakVars>>

\* the initial renderer (agent.py:129-160): the configured portrait strategy
\* when it constructs, else the reactive one when it was imported, else none
InitialRenderer(built) ==
    /\ phase = "renderer"
    /\ phase' = "wiring"
    /\ IF Portrait(env_mode) /\ env_image /\ built
       THEN renderers' = << NewRenderer(env_mode) >> /\ avatar' = 1 /\ avatar_task' = 1
       ELSE IF reactive_ok
            THEN renderers' = << NewRenderer("reactive") >> /\ avatar' = 1 /\ avatar_task' = 1
            ELSE UNCHANGED <<renderers, avatar, avatar_task>>
    /\ UNCHANGED <<cfg, thread, returned, room, audio_track, handlers, stt_ok, announced,
                   heard, failed_at, exit_cause, exit_avatar, outcome>>
    /\ UNCHANGED <<attrs, env_mode, env_image, unpub_ok, apply_pending, nmsg, swap_from,
                   swap_wait, reactive_ok, frame_by, late_frame, burst>>
    /\ UNCHANGED <<sttVars, rendVars, speakVars>>

\* the data_received handler is registered (agent.py:231)
RegisterData ==
    /\ phase = "wiring"
    /\ phase' = "engines"
    /\ handlers' = handlers \cup {"data_received"}
    /\ UNCHANGED <<cfg, thread, returned, room, audio_track, stt_ok, announced, heard,
                   failed_at, exit_cause, exit_avatar, outcome>>
    /\ UNCHANGED <<sttVars, rendVars, sessVars, speakVars>>

\* the transcriber and the synthesizer are constructed, each once; a failure
\* leaves None (agent.py:246-270)
InitEngines(stt, tts) ==
    /\ phase = "engines"
    /\ phase' = "subscribing"
    /\ stt_ok' = stt
    /\ tts_ok' = tts
    /\ UNCHANGED <<cfg, thread, returned, room, audio_track, handlers, announced, heard,
                   failed_at, exit_cause, exit_avatar, outcome>>
    /\ UNCHANGED <<buf, pushed, npush, last_confirmed_t, last_text, final_q, partial,
                   clock, consumer, last_op, last_chunk, text, decode_t>>
    /\ UNCHANGED <<rendVars, sessVars, speakVars>>

\* the track_subscribed handler is registered and publish_data is called
\* (agent.py:311-317)
RegisterSub ==
    /\ phase = "subscribing"
    /\ phase' = "announcing"
    /\ handlers' = handlers \cup {"track_subscribed"}
    /\ UNCHANGED <<cfg, thread, returned, room, audio_track, stt_ok, announced, heard,
                   failed_at, exit_cause, exit_avatar, outcome>>
    /\ UNCHANGED <<sttVars, rendVars, sessVars, speakVars>>

\* variant: the message goes out twice
SentTwice(n) == n + 2

\* publish_data delivers the agent-online message (agent.py:317-319)
Sent(n) == n + 1

\* publish_data returns or raises; on return the main loop is entered
Announced(ok) ==
    /\ phase = "announcing"
    /\ IF ok
       THEN /\ announced' = Sent(announced)
            /\ phase' = "active"
            /\ UNCHANGED <<failed_at, outcome>>
       ELSE /\ Fail("announce")
            /\ UNCHANGED announced
    /\ UNCHANGED <<cfg, thread, returned, room, audio_track, handlers, stt_ok, heard,
                   exit_cause, exit_avatar>>
    /\ UNCHANGED <<sttVars, rendVars, sessVars, speakVars>>

\* variant: the finally block leaves the renderer alone
CleanupSkipped(rs) == rs

\* avatar.stop() of the finally block (agent.py:325-326)
Cleanup(rs) ==
    [i \in 1..Len(rs) |-> IF i = avatar THEN [rs[i] EXCEPT !.stop = TRUE] ELSE rs[i]]

\* the main loop is left, by an exception or by cancellation: the finally
\* block stops the renderer and calls room.disconnect (agent.py:321-327)
ExitActive(cause) ==
    /\ phase = "active"
    /\ phase' = "disconnecting"
    /\ exit_cause' = cause
    /\ exit_avatar' = avatar
    /\ renderers' = Cleanup(renderers)
    /\ UNCHANGED <<cfg, thread, returned, room, audio_track, handlers, stt_ok, announced,
                   heard, failed_at, outcome>>
    /\ UNCHANGED <<attrs, env_mode, env_image, unpub_ok, avatar, avatar_task,
                   apply_pending, nmsg, swap_from, swap_wait, reactive_ok, frame_by,
                   late_frame, burst>>
    /\ UNCHANGED <<sttVars, rendVars, speakVars>>

\* room.disconnect returns or raises and the coroutine ends: the exception
\* in flight, or the one disconnect raised, meets the handler of agent.py:329
Disconnected(ok) ==
    /\ phase = "disconnecting"
    /\ phase' = "finished"
    /\ room' = IF ok THEN "disconnected" ELSE "failed"
    /\ failed_at' = IF ~ok THEN "cleanup" ELSE IF exit_cause = "exception" THEN "loop"
                    ELSE failed_at
    /\ outcome' = Boundary(IF ok THEN exit_cause ELSE "exception")
    /\ UNCHANGED <<cfg, thread, returned, audio_track, handlers, stt_ok, announced, heard,
                   exit_cause, exit_avatar>>
    /\ UNCHANGED <<sttVars, rendVars, sessVars, speakVars>>

\* values a control message can give the mood: strings, and JSON numbers and
\* booleans (written with their type)
MoodValues == {"happy", "Happy", "sad", "grumpy", "", "num:5", "num:0", "bool:true"}

\* isinstance(v, str)
IsString(v) == v \notin {"num:5", "num:0", "bool:true"}

\* bool(v): None, "", 0 and False are falsy
Truthy(v) == v \notin {Unset, "", "num:0"}

\* str.lower
Lower(v) == IF v = "Happy" THEN "happy" ELSE v

\* the prefix table of SimpleBrain.answer and its default
PrefixOf(m) ==
    CASE m = "happy" -> "Sure!"
      [] m = "sad" -> "I'm not feeling great, but"
      [] m = "scared" -> "I'm a bit worried,"
      [] m = "panicked" -> "Please-"
      [] OTHER -> "Okay,"

\* SimpleBrain.answer: (self.s.get("mood") or "normal").lower(), then the table;
\* .lower() of a truthy value that is no string raises AttributeError
Answer(v) ==
    IF ~Truthy(v) THEN PrefixOf("normal")
    ELSE IF ~IsString(v) THEN "raised"
    ELSE PrefixOf(Lower(v))

\* consume_remote_audio takes a confirmed delta and, with a synthesizer,
\* speaks brain.answer of it (agent.py:307-309); an exception of answer ends
\* the consumer task
Heard(stream) ==
    /\ LoopRuns
    /\ stt_ok
    /\ "track_subscribed" \in handlers
    /\ heard < MaxHeard
    /\ sp["reply"].pc # "loop"
    /\ reply.pre # "raised"
    /\ heard' = heard + 1
    /\ IF tts_ok
       THEN /\ reply' = [mood |-> attrs["mood"], pre |-> Answer(attrs["mood"])]
            /\ IF reply'.pre = "raised"
               THEN UNCHANGED sp
               ELSE sp' = [sp EXCEPT !["reply"] = [pc |-> "loop", chunks |-> Speak(stream),
                                                   i |-> 0, captured |-> <<>>]]
       ELSE UNCHANGED <<sp, reply>>
    /\ UNCHANGED track
    /\ UNCHANGED <<cfg, thread, returned, phase, room, audio_track, handlers, stt_ok,
                   announced, failed_at, exit_cause, exit_avatar, outcome>>
    /\ UNCHANGED <<sttVars, rendVars, sessVars>>

Init == InitSTT /\ RenderIdle /\ SessionIdle /\ InitSpeak /\ LifeActive

Next == Push \/ GetFinal \/ SpeakDone \/ Tick

Spec == Init /\ [][Next]_vars

NextVad == PushVad \/ GetFinal \/ SpeakDone \/ Tick

SpecVad == Init /\ [][NextVad]_vars

\* the transcriber of a run that is about a renderer
STTIdle ==
    /\ buf = <<>> /\ pushed = 0 /\ npush = 0 /\ last_confirmed_t = 0
    /\ last_text = <<>> /\ final_q = <<>> /\ partial = <<>>
    /\ clock = StepInterval /\ consumer = "recv" /\ tts_ok = TRUE
    /\ last_op = "none" /\ last_chunk = NoChunk /\ text = <<>> /\ decode_t = -1

InitR == STTIdle /\ InitRender /\ SessionIdle /\ InitSpeak /\ LifeActive

NextRender ==
    \/ ConsumeTtsChunk
    \/ PlayerLoop \/ PlayerGet \/ PlayerTimeout \/ PlayerWake
    \/ WorkerLoop \/ WorkerGet \/ WorkerTimeout \/ WorkerPut
    \/ TickR

SpecRender == InitR /\ [][NextRender]_vars

InitS == STTIdle /\ RenderIdle /\ InitSession /\ InitSpeak /\ LifeActive

Data == \E msg \in Messages : OnData(msg)

Apply == \E built \in BOOLEAN : ApplyAvatarSettings(built)

Start == \E i \in 1..Len(renderers) : RendererStart(i)

Published == \E i \in 1..Len(renderers) : RendererPublished(i)

NextSession == Data \/ Apply \/ Start \/ Published

SpecSession == InitS /\ [][NextSession]_vars

\* control messages that set avatar_mode only, and packets that are no control message
ModeMessages == { m \in Messages : \A k \in Keys \ {"avatar_mode"} : m.set[k] = Unset }

DataMode == \E msg \in ModeMessages : OnData(msg)

Wait == \E i \in 1..Len(renderers) : RendererWait(i)

FrameOut == \E i \in 1..Len(renderers) : RendererFrame(i)

NextProducers == DataMode \/ Apply \/ Start \/ Published \/ Wait \/ FrameOut

SpecProducers == InitS /\ [][NextProducers]_vars

\* a session with a portrait image configured, in which one reply is spoken
InitK == InitS /\ env_image /\ unpub_ok

Say == \E stream \in Streams : SpeakText("reply", stream)

Chunk == \E s \in Speakers, accepted \in BOOLEAN : SpeakChunk(s, accepted)

Return == \E s \in Speakers : SpeakReturn(s)

NextSpeak == DataMode \/ Apply \/ Say \/ Chunk \/ Return

SpecSpeak == InitK /\ [][NextSpeak]_vars

InitL == InitSTT /\ ~tts_ok /\ RenderIdle /\ SessionNone /\ InitSpeak /\ LifeHost

Setup ==
    \/ StartBackgroundAgent
    \/ \E ok, reactive \in BOOLEAN : Prepare(ok, reactive)
    \/ \E ok \in BOOLEAN : Connected(ok)
    \/ \E ok \in BOOLEAN : AudioPublished(ok)
    \/ \E built \in BOOLEAN : InitialRenderer(built)
    \/ RegisterData
    \/ \E stt, tts \in BOOLEAN : InitEngines(stt, tts)
    \/ RegisterSub
    \/ \E ok \in BOOLEAN : Announced(ok)

Leave == \E cause \in {"exception", "cancel"} : ExitActive(cause)

Closed == \E ok \in BOOLEAN : Disconnected(ok)

NextLife == Setup \/ Leave \/ Closed \/ DataMode \/ Apply

SpecLife == InitL /\ [][NextLife]_vars

\* the one-chunk stream of a short text
ShortStreams == { st \in Streams : Len(Speak(st)) = 1 }

Greet == \E stream \in ShortStreams : SpeakText("greeting", stream)

Hear == \E stream \in ShortStreams : Heard(stream)

NextVoice == Setup \/ Leave \/ Closed \/ Greet \/ Hear \/ Chunk \/ Return

SpecVoice == InitL /\ [][NextVoice]_vars

\* control messages that set the mood only
MoodMessages ==
    { [sim |-> TRUE, set |-> [k \in Keys |-> IF k = "mood" THEN v ELSE Unset]] :
        v \in MoodValues }

DataMood == \E msg \in MoodMessages : OnData(msg)

InitB == STTIdle /\ RenderIdle /\ SessionIdle /\ InitSpeak /\ LifeActive

NextBrain == DataMood \/ Hear \/ Chunk \/ Return

SpecBrain == InitB /\ [][NextBrain]_vars

(***************************************************************************)
(* Claims about the transcriber                                            *)
(***************************************************************************)
\* C1 - monotonic confirmation: in every step last_text stays as it is or is
\* extended; what was confirmed is never shortened or rewritten.
MonotonicConfirmation == [][StartsWith(last_text', last_text)]_vars

\* a second confirmation: the delta is only the end of last_text
MonotonicConfirmationWitness ==
    /\ last_op = "confirmed"
    /\ final_q # <<>>
    /\ final_q[Len(final_q)] # last_text

\* C2 - stabilization threshold: a decode whose text extends the text of the
\* decode before it by fewer than MinMargin characters emits no delta and
\* only replaces the pending text, whether or not the earlier decode was confirmed.
StabilizationThreshold ==
    [][ ( /\ npush' # npush
          /\ last_op' \in {"confirmed", "pending"}
          /\ decode_t >= 0
          /\ StartsWith(text', text)
          /\ Len(text') > Len(text)
          /\ Len(text') - Len(text) < MinMargin )
        => ( /\ final_q' = final_q
             /\ last_text' = last_text
             /\ partial' = text' ) ]_vars

\* C3 as stated - a decode whose text starts with last_text and is more than
\* MinMargin longer enqueues exactly the suffix beyond last_text, confirms the
\* text and stamps the decode time; any other decode only replaces the pending text.
ConfirmationRuleExactSuffix ==
    [][ (npush' # npush /\ last_op' \in {"confirmed", "pending"})
        => IF StartsWith(text', last_text) /\ Len(text') > Len(last_text) + MinMargin
           THEN /\ final_q' = Append(final_q, SuffixBeyond(text', last_text))
                /\ last_text' = text'
                /\ last_confirmed_t' = clock
           ELSE /\ partial' = text'
                /\ UNCHANGED <<last_text, final_q, last_confirmed_t>> ]_vars

\* C3 as amended - the same rule, the delta being the suffix beyond last_text
\* with its surrounding whitespace stripped.
ConfirmationRule ==
    [][ (npush' # npush /\ last_op' \in {"confirmed", "pending"})
        => IF StartsWith(text', last_text) /\ Len(text') > Len(last_text) + MinMargin
           THEN /\ final_q' = Append(final_q, Strip(SuffixBeyond(text', last_text)))
                /\ last_text' = text'
                /\ last_confirmed_t' = clock
           ELSE /\ partial' = text'
                /\ UNCHANGED <<last_text, final_q, last_confirmed_t>> ]_vars

\* a confirmation whose suffix began with a space
ConfirmationRuleWitness ==
    /\ last_op = "confirmed"
    /\ final_q # <<>>
    /\ Len(final_q[Len(final_q)]) < Len(last_text)
    /\ last_text[Len(last_text) - Len(final_q[Len(final_q)])] = " "

\* C4 - decode rate limit: a decode never starts less than one step interval
\* after the start of the decode before it.
DecodeRateLimit ==
    [][ ( /\ npush' # npush
          /\ last_op' \in {"confirmed", "pending", "raised"}
          /\ decode_t >= 0 )
        => clock - decode_t >= StepInterval ]_vars

\* C5 - local agreement: a delta is emitted only when the decode before this
\* one returned a non-empty text that the new text extends; the first decode
\* of a session emits nothing.
LocalAgreement ==
    [][ (npush' # npush /\ last_op' = "confirmed")
        => ( /\ decode_t >= 0
             /\ text # <<>>
             /\ StartsWith(text', text) ) ]_vars

\* C6 - silence: a push none of whose sub-frames the VAD calls speech only
\* appends to the buffer (trimmed to the window); it starts no decode and
\* leaves the transcript state and the delta queue as they were.
SilenceIsNoOp ==
    [][ ( /\ npush' # npush
          /\ \A k \in 1..last_chunk'.n : last_chunk'.vad[k] # "speech" )
        => ( /\ RunsLen(buf') = Min(RunsLen(buf) + ChunkLen(last_chunk'), Window)
             /\ last_op' = "silent"
             /\ UNCHANGED <<last_text, partial, last_confirmed_t, final_q, text, decode_t>> ) ]_vars

\* a silent push of at least one sub-frame after a confirmation
SilenceIsNoOpWitness ==
    /\ last_op = "silent"
    /\ last_chunk.n > 0
    /\ last_text # <<>>

\* C7 - decode failures are swallowed: push_pcm never raises and the consumer
\* task goes on to the next frame.
DecodeFailureSwallowed == last_op # "raised" /\ consumer # "failed"

(***************************************************************************)
(* Claims about the renderers                                              *)
(***************************************************************************)
\* C8 - queue drop-not-block: no producer of a bounded queue is ever
\* suspended waiting for room in it; a full queue costs the newest item.
QueueDropNotBlock == worker # "put"

\* C9 - idle-frame guarantee: while the renderer runs, no more than one
\* pacing period passes between two published frames.
IdleFrameGuarantee == (~r_stop /\ player # "done") => gap <= PeriodTicks

(***************************************************************************)
(* Claims about the session controller                                     *)
(***************************************************************************)
\* C10 - renderer hot-swap: once the apply_avatar_settings task of a message
\* that set avatar_mode to "reactive" during a portrait renderer has run,
\* exactly one renderer task is live, the prior renderer's stop flag is set,
\* and no later renderer's track is published while the prior one's still is.
HotSwapToReactive ==
    (swap_from # 0 /\ swap_wait = 0)
    => /\ Cardinality({ i \in 1..Len(renderers) : Live(renderers[i]) }) = 1
       /\ renderers[swap_from].stop
       /\ \A j \in (swap_from + 1)..Len(renderers) :
            renderers[j].track = "published" => renderers[swap_from].track # "published"

\* C11 - never two video producers: at most one renderer has its stop flag
\* unset and its task not cancelled, and no renderer captures a frame once a
\* successor has been started, whatever the interleaving of control messages.
NeverTwoProducers ==
    /\ Cardinality({ i \in 1..Len(renderers) :
                       ~renderers[i].stop /\ renderers[i].task # "cancelled" }) <= 1
    /\ ~late_frame

\* two messages were pending before the first apply_avatar_settings ran, both
\* swaps are done and the last renderer is the one publishing frames
NeverTwoProducersWitness ==
    /\ burst
    /\ Len(renderers) = 3
    /\ renderers[1].track = "published"
    /\ frame_by = 3

\* C12 - exactly one renderer strategy is active: there is always a renderer
\* whose task is live, also after a hot-swap whose constructor failed.
ExactlyOneActive ==
    /\ avatar # 0
    /\ Cardinality({ i \in 1..Len(renderers) : Live(renderers[i]) }) = 1

(***************************************************************************)
(* Claims about speech output                                              *)
(***************************************************************************)
\* C18 - audio publish order: the chunks of an utterance reach the audio track
\* in the order speak produced them, each once and none skipped, also when a
\* renderer queue is full or the renderer is swapped during the utterance.
AudioPublishOrder ==
    \A s \in Speakers :
        /\ Len(sp[s].captured) = sp[s].i
        /\ \A k \in 1..sp[s].i :
             sp[s].captured[k].idx = k /\ sp[s].captured[k].len = sp[s].chunks[k]
        /\ sp[s].pc = "done" => sp[s].i = Len(sp[s].chunks)

\* an utterance is spoken to its end although a full queue refused one of its
\* chunks and the renderer changed between two of them
AudioPublishOrderWitness ==
    \E s \in Speakers :
        /\ sp[s].pc = "done"
        /\ sp[s].i >= 2
        /\ \E j, k \in 1..sp[s].i :
             /\ sp[s].captured[j].to # sp[s].captured[k].to
             /\ sp[s].captured[j].fed = "dropped"

\* C19 - fixed-duration synthesis chunks: every chunk speak returns has
\* exactly 960 samples (20 ms at 48 kHz).
FixedDurationChunks ==
    \A s \in Speakers : \A k \in DOMAIN sp[s].chunks : sp[s].chunks[k] = ChunkSamples

ConfigurationGate ==
    /\ thread <= 1
    /\ phase # "host" =>
         IF cfg.enabled /\ cfg.api_key /\ cfg.api_secret /\ cfg.lk_url
         THEN thread = 1 /\ returned = "thread"
         ELSE /\ thread = 0 /\ returned = "None" /\ phase = "skipped"
              /\ room = "none" /\ failed_at = "none" /\ outcome = "running"

\* the agent is enabled and only the secret is missing: nothing was started
ConfigurationGateWitness ==
    /\ phase = "skipped"
    /\ cfg.enabled /\ cfg.api_key /\ ~cfg.api_secret /\ cfg.lk_url
    /\ returned = "None"

\* C15 - failure containment: a failure at any step of the session (imports
\* and token, connect, publish, announce, main loop, cleanup) ends the
\* coroutine logged at its boundary and never leaves _run_agent_async.
FailureContainment ==
    /\ outcome # "propagated"
    /\ failed_at # "none" => (phase = "finished" /\ outcome = "logged")

\* room.disconnect raised in the finally block and the failure was logged
FailureContainmentWitness ==
    /\ failed_at = "cleanup"
    /\ exit_cause = "cancel"
    /\ outcome = "logged"

\* the synthesizer failed to initialize
SynthAbsent ==
    phase \in {"subscribing", "announcing", "active", "disconnecting", "finished"} /\ ~tts_ok

\* C17 - unavailable synthesis is non-fatal and permanent: once the synthesizer
\* has failed to initialize no speak_text loop runs and no chunk is captured,
\* and the synthesizer stays absent (no retry); the session still announces
\* itself, becomes active and takes confirmed deltas without replying.
UnavailableSynthesis ==
    /\ [](SynthAbsent => \A s \in Speakers : sp[s].pc = "idle" /\ sp[s].captured = <<>>)
    /\ [][SynthAbsent => SynthAbsent']_vars

\* without a synthesizer the session is active and announced, and a confirmed
\* delta was taken and got no reply
UnavailableSynthesisWitness ==
    /\ ~tts_ok
    /\ phase = "active"
    /\ announced = 1
    /\ heard = 1
    /\ sp["reply"].pc = "idle"

MoodPrefixMapping ==
    /\ reply.pre # "raised"
    /\ reply.pre # "none" =>
         /\ reply.mood \in {"happy", "Happy"} => reply.pre = "Sure!"
         /\ reply.mood \in {"grumpy", "", "num:5", "num:0", "bool:true"} => reply.pre = "Okay,"

(***************************************************************************)
(* Claims about the lifecycle of the session                               *)
(***************************************************************************)
\* the state of the session controller, read off the position of
\* _run_agent_async: before room.connect is awaited, from there to the main
\* loop, the main loop, the finally block, the end of the coroutine
LifecycleState ==
    CASE phase \in {"host", "skipped", "prepare"} -> "Disconnected"
      [] phase \in {"connecting", "publishing", "renderer", "wiring", "engines",
                    "subscribing", "announcing"} -> "Connecting"
      [] phase = "active" -> "Active"
      [] phase = "disconnecting" -> "Disconnecting"
      [] OTHER -> "Finished"

\* C21 - lifecycle order: the state moves only along Disconnected ->
\* Connecting -> Active -> Disconnecting -> finished (a session that never
\* connected may finish at once); a session whose room is connected finishes
\* only from Disconnecting; the finished state is never left.
SessionLifecycleOrder ==
    [][ /\ LifecycleState = "Finished" => LifecycleState' = "Finished"
        /\ (LifecycleState # "Finished" /\ LifecycleState' = "Finished" /\ room = "connected")
             => LifecycleState = "Disconnecting"
        /\ LifecycleState' # LifecycleState =>
             <<LifecycleState, LifecycleState'>> \in
                { <<"Disconnected", "Connecting">>, <<"Connecting", "Active">>,
                  <<"Active", "Disconnecting">>, <<"Disconnecting", "Finished">>,
                  <<"Disconnected", "Finished">>, <<"Connecting", "Finished">> } ]_vars

(***************************************************************************)
(* Claims about the voice-activity gate                                    *)
(***************************************************************************)
\* C22 - VAD coverage: a push whose chunk has a complete sub-frame that the
\* VAD calls speech passes the gate, whichever sub-frame it is.
VadCoverage ==
    (npush > 0 /\ \E k \in 1..last_chunk.n : last_chunk.vad[k] = "speech")
    => last_op # "silent"

(***************************************************************************)
(* The transcriber fed with long chunks                                    *)
(***************************************************************************)
\* sub-frame counts of the chunks: one sub-frame, half a window, more than a window
LongFrames == {1, Window \div (2 * Frame), Window \div Frame + 1}

\* chunks of these lengths and one more sample, all speech or all silence
WindowChunks ==
    { [n |-> k, rem |-> 1, vad |-> [i \in 1..k |-> v]] :
        k \in LongFrames, v \in {"silence", "speech"} }

\* decode results of the window runs: two texts
WindowOutcomes == { o \in VadOutcomes : o.ok /\ o.raw # <<>> }

PushWindow == \E c \in WindowChunks, out \in WindowOutcomes : PushPcm(c, out)

NextWindow == PushWindow \/ GetFinal \/ SpeakDone \/ Tick

SpecWindow == Init /\ [][NextWindow]_vars

(***************************************************************************)
(* Claims about the audio window                                           *)
(***************************************************************************)
\* C23 - bounded audio window: the buffer holds at most Window samples and is
\* exactly the most recent samples of all the chunks pushed, in arrival order
\* (one unbroken stretch of the stream that ends at the last sample pushed).
BoundedWindow ==
    /\ RunsLen(buf) = Min(pushed, Window)
    /\ buf = <<>> => pushed = 0
    /\ buf # <<>> =>
         /\ buf[1][1] = pushed - RunsLen(buf)
         /\ buf[Len(buf)][2] = pushed
         /\ \A i \in 1..(Len(buf) - 1) : buf[i][2] = buf[i + 1][1]

\* a silent chunk longer than the window has been pushed onto a buffer that
\* held samples already
BoundedWindowWitness ==
    /\ npush > 1
    /\ last_op = "silent"
    /\ ChunkLen(last_chunk) > Window
    /\ RunsLen(buf) = Window

(***************************************************************************)
(* The queues between the stages                                           *)
(***************************************************************************)
\* a session in its main loop whose transcriber could not be built
\* (agent.py:246-256): consume_remote_audio returns at once
LifeDeaf ==
    /\ cfg = [enabled |-> TRUE, api_key |-> TRUE, api_secret |-> TRUE, lk_url |-> TRUE]
    /\ thread = 1
    /\ returned = "thread"
    /\ phase = "active"
    /\ room = "connected"
    /\ audio_track = TRUE
    /\ handlers = {"data_received", "track_subscribed"}
    /\ stt_ok = FALSE
    /\ announced = 1
    /\ heard = 0
    /\ failed_at = "none"
    /\ exit_cause = "none"
    /\ exit_avatar = 0
    /\ outcome = "running"

\* two kinds of session: the transcriber feeds the delta queue beside the
\* reactive renderer (which has no queue), or speech feeds the queues of a
\* portrait renderer in a session without transcriber
InitH ==
    /\ SessionIdle
    /\ InitSpeak
    /\ \/ InitSTT /\ tts_ok /\ RenderIdle /\ LifeActive
       \/ STTIdle /\ InitRender /\ Portrait(r_kind) /\ LifeDeaf

\* `if stt is None: return` (agent.py:295-296), else the loop over the frames
PushHeard == stt_ok /\ PushVad

\* time.time() is read by push_pcm only
Clock == stt_ok /\ Tick

NextHandoff == PushHeard \/ GetFinal \/ SpeakDone \/ Clock \/ NextRender

SpecHandoff == InitH /\ [][NextHandoff]_vars

(***************************************************************************)
(* Claims about the queues                                                 *)
(***************************************************************************)
\* C24 - bounded handoffs: the audio queue and the frame queue of a renderer
\* never hold more than their maxsize (64 and 256 for the portrait renderer,
\* 64 and 64 for the lip-sync renderer) and the queue of confirmed deltas
\* never holds more than one delta.
BoundedHandoffs ==
    /\ r_kind = "liveportrait" => audio_q <= LPAudioQMax /\ frame_q <= LPFrameQMax
    /\ r_kind = "wav2lip" => audio_q <= W2LPcmQMax /\ frame_q <= W2LFrameQMax
    /\ Len(final_q) <= 1

\* a second delta has been confirmed and waits in the queue
BoundedHandoffsWitness ==
    /\ Len(final_q) = 1
    /\ Len(last_text) > Len(final_q[1])
    /\ consumer = "poll"

(***************************************************************************)
(* The session attributes under control messages of every kind             *)
(***************************************************************************)
DataAny == \E msg \in Packets : OnData(msg)

NextAttrs == DataAny \/ Apply

SpecAttrs == InitK /\ [][NextAttrs]_vars

(***************************************************************************)
(* Claims about control messages                                           *)
(***************************************************************************)
\* C25 - reconfiguration trigger: a packet schedules apply_avatar_settings
\* exactly when it is a caller.sim message whose set map has a key prefixed
\* avatar_, and schedules it once; no packet changes the renderers, the active
\* renderer or its task by itself.
ReconfigurationTrigger ==
    [][ \A msg \in Packets : OnData(msg) =>
          /\ apply_pending' = apply_pending + 1
               <=> ( /\ msg.sim
                     /\ \E k \in {"avatar_mode", "avatar_fps", "avatar_image"} :
                          msg.set[k] # Unset )
          /\ apply_pending' \in {apply_pending, apply_pending + 1}
          /\ UNCHANGED <<renderers, avatar, avatar_task>> ]_vars

\* of two packets one had an avatar_ key and scheduled a reconfiguration, the
\* key that nothing reads is stored, the initial renderer is untouched
ReconfigurationTriggerWitness ==
    /\ nmsg = 2
    /\ apply_pending = 1
    /\ attrs["note"] # Unset
    /\ attrs["avatar_mode"] = Unset
    /\ attrs["avatar_fps"] # Unset
    /\ Len(renderers) = 1
    /\ ~renderers[1].stop

\* C26 - last-write-wins attributes: a caller.sim message gives every key of
\* its set map the value it carries and leaves the other keys as they were, a
\* packet of any other kind leaves the map as it was, and no step removes a key.
LastWriteWins ==
    [][ /\ \A msg \in Packets : OnData(msg) =>
             \A k \in Keys :
                attrs'[k] = IF msg.sim /\ msg.set[k] # Unset THEN msg.set[k] ELSE attrs[k]
        /\ \A k \in Keys : attrs[k] # Unset => attrs'[k] # Unset ]_vars

\* the mode was set to reactive by one message and to wav2lip by a later one,
\* and the key that nothing reads is kept
LastWriteWinsWitness ==
    /\ swap_from # 0
    /\ attrs["avatar_mode"] = "wav2lip"
    /\ attrs["note"] = "memo"

(***************************************************************************)
(* Claims about the lip-sync worker                                        *)
(***************************************************************************)
\* C27 - lip-sync failure fallback: when rendering a window raises, the frame
\* queue gains the portrait and nothing else (at once, or as soon as the
\* queue has room), and the worker stays in its loop.
LipSyncFallback ==
    [][ ( /\ audio_q' = audio_q - 1
          /\ w_buf' = w_buf + ChunkSamples - W2LWindow
          /\ w_last' = "raised" )
        => IF frame_q < W2LFrameQMax
           THEN frame_q' = frame_q + 1 /\ worker' = "loop"
           ELSE frame_q' = frame_q /\ worker' = "put" ]_vars

\* a window has been rendered after one that raised
LipSyncFallbackWitness ==
    /\ r_kind = "wav2lip"
    /\ w_last = "resumed"
    /\ worker # "done"

(***************************************************************************)
(* A renderer that is stopped                                              *)
(***************************************************************************)
NextStop == NextRender \/ Stop

SpecStop == InitR /\ [][NextStop]_vars

(***************************************************************************)
(* Claims about stopping a renderer                                        *)
(***************************************************************************)
\* C28 - cooperative stop: after stop() every loop exits on its own, so no
\* loop is left suspended where nothing can resume it: once the player has
\* exited, the worker is not waiting for room in a full frame queue.
CooperativeStop ==
    (r_stop /\ player = "done" /\ worker = "put") => frame_q < FrameQMax(r_kind)

(***************************************************************************)
(* From a confirmed delta to the reply                                     *)
(***************************************************************************)
\* get_final, the test of agent.py:308 and brain.answer(final) with the mood
\* of the session: an exception of answer ends the consumer task
TakeFinal ==
    /\ consumer = "poll"
    /\ IF final_q = <<>>
       THEN /\ consumer' = "recv"
            /\ UNCHANGED final_q
       ELSE /\ final_q' = Tail(final_q)
            /\ consumer' = IF ~tts_ok THEN "recv"
                           ELSE IF Answer(attrs["mood"]) = "raised" THEN "failed"
                           ELSE "speak"
    /\ UNCHANGED <<buf, pushed, npush, last_confirmed_t, last_text, partial, clock,
                   tts_ok, last_op, last_chunk, text, decode_t>>
    /\ UNCHANGED <<rendVars, sessVars, speakVars, lifeVars>>

PushDelta == npush < MaxVadPush /\ \E c \in SttChunks, out \in VadOutcomes : PushPcm(c, out)

\* a session in its main loop with transcriber and synthesizer
InitReply == InitSTT /\ tts_ok /\ RenderIdle /\ SessionIdle /\ InitSpeak /\ LifeActive

NextReply == PushDelta \/ TakeFinal \/ SpeakDone \/ Tick \/ DataMood

SpecReply == InitReply /\ [][NextReply]_vars

(***************************************************************************)
(* Claims about replies                                                    *)
(***************************************************************************)
\* C29 - one reply per confirmed delta: with the synthesizer, every delta
\* leaves the queue in the order of confirmation and starts a reply utterance
\* when it does, a reply starts only for a delta taken from the queue, and no
\* delta is in the queue when the consumer goes back to the inbound audio.
OneReplyPerDelta ==
    [][ /\ (tts_ok /\ Len(final_q') < Len(final_q))
             => (final_q' = Tail(final_q) /\ consumer' = "speak")
        /\ (consumer' = "speak" /\ consumer # "speak")
             => Len(final_q') = Len(final_q) - 1
        /\ consumer' = "recv" => final_q' = <<>> ]_vars

(***************************************************************************)
(* The normalizer of consume_remote_audio                                  *)
(***************************************************************************)
\* f.sample_rate of the inbound frames
SourceRates == {8000, 16000, 24000, 32000, 44100, 48000}

\* inbound frames of 10 and 30 ms: samples per channel, rate, channels
SourceFrames ==
    { [n |-> (r * ms) \div 1000, rate |-> r, channels |-> ch] :
        r \in SourceRates, ms \in {10, 30}, ch \in {1, 2} }

\* round(a / b) of Python for positive integers: to the nearest, a tie to the even one
Round(a, b) ==
    LET q == a \div b
        twice == 2 * (a % b)
    IN  IF twice < b THEN q
        ELSE IF twice > b THEN q + 1
        ELSE IF q % 2 = 0 THEN q ELSE q + 1

\* len(np.frombuffer(f.data, dtype=np.int16)): the samples of all channels
DataLen(f) == f.n * f.channels

\* pcm.reshape((-1, 2)).mean(axis=1) when there are two channels
MonoLen(f) == IF f.channels = 2 THEN DataLen(f) \div 2 ELSE DataLen(f)

\* factor = max(1, int(round(f.sample_rate / 16000)))
Factor(f) == Max(1, Round(f.rate, SampleRate))

\* len(pcm[::factor]) when the rate is not 16000, else len(pcm)
NormalizedLen(f) ==
    IF f.rate # SampleRate
    THEN (MonoLen(f) + Factor(f) - 1) \div Factor(f)
    ELSE MonoLen(f)

\* the chunk handed to push_pcm for the frame f, with the VAD's verdict v on
\* each of its sub-frames
NormalizedChunk(f, v) ==
    [n |-> NormalizedLen(f) \div Frame, rem |-> NormalizedLen(f) % Frame,
     vad |-> [i \in 1..(NormalizedLen(f) \div Frame) |-> v], src |-> f]

PushFrame ==
    /\ npush < MaxVadPush
    /\ \E f \in SourceFrames, v \in {"speech", "silence"}, out \in WindowOutcomes :
         PushPcm(NormalizedChunk(f, v), out)

NextNorm == PushFrame \/ GetFinal \/ SpeakDone \/ Tick

SpecNorm == Init /\ [][NextNorm]_vars

(***************************************************************************)
(* Claims about the normalizer                                             *)
(***************************************************************************)
\* C30 - normalizer output rate: the chunk pushed for a frame of n samples
\* per channel at rate r has n * 16000 / r samples, rounded either way.
NormalizerOutputRate ==
    npush > 0 =>
        LET f == last_chunk.src
            len == ChunkLen(last_chunk)
        IN  /\ (len - 1) * f.rate < f.n * SampleRate
            /\ f.n * SampleRate < (len + 1) * f.rate

(***************************************************************************)
(* The greeting and a reply of more than one chunk                         *)
(***************************************************************************)
GreetAny == \E stream \in Streams : SpeakText("greeting", stream)

HearAny == \E stream \in Streams : Heard(stream)

NextChorus == GreetAny \/ HearAny \/ Chunk \/ Return

SpecChorus == InitB /\ [][NextChorus]_vars

(***************************************************************************)
(* Claims about concurrent utterances                                      *)
(***************************************************************************)
\* C31 - utterances are not interleaved: between two chunks of one utterance
\* on the audio track there is no chunk of another utterance.
UtterancesContiguous ==
    \A i, j \in 1..Len(track) :
        (i < j /\ track[i] = track[j]) => \A k \in i..j : track[k] = track[i]

(***************************************************************************)
(* Claims about cleanup outside the main loop                              *)
(***************************************************************************)
\* C32 - when a step between the transport connect and the main loop raises,
\* the coroutine does not finish before every renderer that was started has
\* its stop flag set and the transport is disconnected.
SetupFailureCleanup ==
    (phase = "finished" /\ failed_at \in {"publish", "announce"}) =>
        /\ room = "disconnected"
        /\ \A i \in 1..Len(renderers) : renderers[i].stop

\* C33 - no renderer is started once the cleanup block has run: when the
\* session that left its main loop is finished, every renderer ever created
\* has its stop flag set.
NoRendererAfterCleanup ==
    (phase = "finished" /\ exit_cause # "none") =>
        \A i \in 1..Len(renderers) : renderers[i].stop

====
